---- MODULE Spec2Model ----
(***************************************************************************)
(* Retrieval and context-assembly engine of yisunguk/AI-search.            *)
(*                                                                         *)
(* One behaviour is one call of AzureOpenAIChatManager.get_chat_response,  *)
(* in either of the two implementations kept in the repository:            *)
(*   impl = "v1"  chat_manager.py     (single search, retry chain, forced  *)
(*                                     inclusion, boost, round robin)      *)
(*   impl = "v2"  chat_manager_v2.py  (two-stage search, rank sort,        *)
(*                                     explicit-page priority)             *)
(* The search backend, the blob store and the language model are external: *)
(* each of their answers is a nondeterministic choice.                     *)
(*                                                                         *)
(* Strings are modelled by the parts the code inspects:                    *)
(*   indexed name  [doc, sfx, quoted]   "<doc>" or "<doc> (p.<sfx>)",      *)
(*                                      sfx = 0: no suffix; quoted: the    *)
(*                                      name is URL-quoted                 *)
(*   storage path  [form, folder, doc, page]  page = 0: no '#page=N'       *)
(*   content       [id, pre, clen, noise, kw]                              *)
(*                                      pre: its first 50 characters,      *)
(*                                      clen: its length, noise: how many  *)
(*                                      characters cleaning removes, kw:   *)
(*                                      which boost keywords it contains   *)
(***************************************************************************)
EXTENDS Integers, Sequences, FiniteSets, TLC

(* ------------------------------ bounds -------------------------------- *)
\* number of pages in the analysis JSON of a selected document
DirectPages == 2
\* number of pages of the large document handed to the aggregator
BulkPages == 26
\* number of duplicate hits appended to an aggregated list
MaxDups == 2
\* hits returned by each search stage handed to the merge step
MaxStage == 2
\* citation-shaped spans in an answer text
MaxSpans == 2
\* entries in a citation list
MaxCitations == 2
MaxPieces == 4
MaxCited == 2
MaxMention == 3
MaxFiles == 2

(* ------------------------- program constants -------------------------- *)
EXACT_MATCH_THRESHOLD == 3
context_limit == 25
page_char_limit == 8000
ellipsis_len == 3
chunk_separator_len == 5
list_boost == 100

(* ------------------------------ universe ------------------------------ *)
NoneVal == "None"
DocA == "A.pdf"
DocB == "B.pdf"
Docs == {DocA, DocB}
FolderMine == "u1"
FolderOther == "u2"

Name(d, s) == [doc |-> d, sfx |-> s, quoted |-> FALSE]
QuotedName(d, s) == [doc |-> d, sfx |-> s, quoted |-> TRUE]
Path(f, fo, d, p) == [form |-> f, folder |-> fo, doc |-> d, page |-> p]
EmptyPath == Path("empty", "", "", 0)
\* pre is a sequence of pieces of text; Content gives it one piece
ContentText(i, pr, n, z, k) == [id |-> i, pre |-> pr, clen |-> n, noise |-> z, kw |-> k]
Content(i, pr, n, z, k) == ContentText(i, <<pr>>, n, z, k)
Hit(n, p, c, t) == [name |-> n, path |-> p, content |-> c, title |-> t]

\* page 7 of A.pdf as app.py indexes it: suffix on the name, fragment on the path
hA7 == Hit(Name(DocA, 7), Path("blob", FolderMine, DocA, 7), Content(1, "x1", 60, 0, "pidlist"), "")
\* another chunk of the same page, long enough to be truncated
hA7b == Hit(Name(DocA, 7), Path("blob", FolderMine, DocA, 7), Content(2, "x2", 8010, 9, "none"), "")
\* the same page indexed with the suffix on the name only
hA7n == Hit(Name(DocA, 7), Path("rel", "", "", 0), Content(3, "x1", 70, 0, "none"), "")
hA12 == Hit(QuotedName(DocA, 12), Path("blob", FolderMine, DocA, 12), Content(4, "x4", 8005, 5, "pid"), "")
\* a page of B.pdf stored in another user's folder
hB1 == Hit(Name(DocB, 1), Path("blob", FolderOther, DocB, 1), Content(5, "x5", 20, 0, "none"), "T")
\* a whole file indexed as one record: no page anywhere
hB0 == Hit(Name(DocB, 0), EmptyPath, Content(6, "x6", 50, 0, "none"), "")

Hits == {hA7, hA7b, hA7n, hA12, hB1, hB0}

\* the page a question may ask for explicitly: one that is indexed
AskedPage == hA7.path.page

\* the hit lists one backend call may return; << >> is also what
\* AzureSearchManager.search returns when the backend call raises
ResultLists ==
  { << >>,
    <<hA7>>,
    <<hB1, hA7n>>,
    <<hA12, hA7b, hA7>>,
    <<hA7n, hB0, hA7>>,
    <<hB0, hB1>> }

\* the hit lists a per-file fetch of the forced inclusion may return
ForcedLists == { << >>, <<hA7>>, <<hB0, hB1>> }

(* --------------------------- pure helpers ----------------------------- *)
Min(a, b) == IF a <= b THEN a ELSE b

Range(s) == {s[i] : i \in DOMAIN s}

\* urllib.parse.unquote applied to the indexed name
unquote(name) == [name EXCEPT !.quoted = FALSE]

\* 'user_folder in unquote(path)': the folder is a component of the path
PathContains(uf, path) == path.folder = uf

\* found.startswith(target_file): "<doc>" or "<doc> (p.N)" against "<doc>"
NameStartsWith(name, f) == name.doc = f

PageKeyNoDefault(hit) ==
  LET filename == unquote(hit.name)
  IN  IF hit.path.page > 0 THEN <<filename, hit.path.page>>
      ELSE IF filename.sfx > 0 THEN <<[filename EXCEPT !.sfx = 0], filename.sfx>>
      ELSE <<filename, 0>>

\* the page key of a hit: page from the '#page=N' fragment of the path, else
\* from the '(p.N)' suffix of the name (which is then cut off), else page 1
PageKey(hit) ==
  LET filename == unquote(hit.name)
  IN  IF hit.path.page > 0 THEN <<filename, hit.path.page>>
      ELSE IF filename.sfx > 0 THEN <<[filename EXCEPT !.sfx = 0], filename.sfx>>
      ELSE <<filename, 1>>

\* rank + boost; chat_manager.py boosts P&ID list pages, v2 removed the boost
AdjustedRank(im, rank, hit) ==
  IF im = "v1" /\ hit.content.kw = "pidlist" THEN rank - list_boost ELSE rank

\* the citation's filepath, built on first sight of a key
FilePath(sc, fo, d, s, fr) == [scheme |-> sc, folder |-> fo, doc |-> d, sfx |-> s, frag |-> fr]

BlobPath(im, uf, filename, path) ==
  LET ufo == IF uf = NoneVal THEN "" ELSE uf
  IN  IF im = "v1"
      THEN IF path.form = "blob"
           THEN FilePath(FALSE, path.folder, path.doc, 0, 0)
           ELSE FilePath(FALSE, "", filename.doc, filename.sfx, 0)
      ELSE CASE path.form = "empty"  -> FilePath(FALSE, ufo, filename.doc, filename.sfx, 0)
             [] path.form = "direct" -> FilePath(FALSE, path.folder, path.doc, 0, 0)
             [] path.form = "blob"   -> FilePath(FALSE, path.folder, path.doc, 0, 0)
             [] path.form = "rel"    -> FilePath(FALSE, path.folder, path.doc, 0, path.page)
             [] path.form = "uri"    -> FilePath(TRUE, path.folder, path.doc, 0, path.page)
             [] OTHER                -> FilePath(FALSE, ufo, filename.doc, 0, 0)

Citation(im, uf, key, hit) ==
  [ filepath |-> BlobPath(im, uf, key[1], hit.path),
    path     |-> hit.path,
    title    |-> IF im = "v1" THEN key[1] ELSE hit.title,
    page     |-> key[2] ]

BestRankLast(ranks, key, adjusted) == adjusted

\* page_ranks[key] = min(page_ranks[key], adjusted_rank)
BestRank(ranks, key, adjusted) ==
  IF key \in DOMAIN ranks THEN Min(ranks[key], adjusted) ELSE adjusted

AddChunkAlways(chunks, content) == Append(chunks, content)

\* 'if content not in grouped_context[key]: append'
AddChunk(chunks, content) ==
  IF content \in Range(chunks) THEN chunks ELSE Append(chunks, content)

\* the three maps before the loop
EmptyAgg == [grouped_context |-> << >>, citations_map |-> << >>, page_ranks |-> << >>]

\* one iteration of 'for rank, result in enumerate(search_results)'
AggStep(im, uf, agg, rank, hit) ==
  LET key == PageKey(hit)
      old == IF key \in DOMAIN agg.grouped_context THEN agg.grouped_context[key] ELSE << >>
      cit == IF key \in DOMAIN agg.citations_map THEN agg.citations_map[key]
             ELSE Citation(im, uf, key, hit)
  IN  [ grouped_context |-> (key :> AddChunk(old, hit.content)) @@ agg.grouped_context,
        citations_map   |-> (key :> cit) @@ agg.citations_map,
        page_ranks      |-> (key :> BestRank(agg.page_ranks, key, AdjustedRank(im, rank, hit)))
                              @@ agg.page_ranks ]

(* ------------------ merge, direct fetch, folder filter ---------------- *)
\* the text of an indexed name, in pieces: '<doc>' or '<doc> (p.<sfx>)', the
\* space URL-quoted in a quoted name
NameText(name) ==
  IF name.sfx = 0 THEN <<name.doc>>
  ELSE <<name.doc, IF name.quoted THEN "%20(p." ELSE " (p.", ToString(name.sfx), ")">>

\* result_id = metadata_storage_name + str(content[:50]): one string
ResultId(hit) == NameText(hit.name) \o hit.content.pre

RECURSIVE DedupFrom(_, _, _)
DedupFrom(hits, n, seen) ==
  IF n > Len(hits) THEN << >>
  ELSE IF ResultId(hits[n]) \in seen THEN DedupFrom(hits, n + 1, seen)
  ELSE <<hits[n]>> \o DedupFrom(hits, n + 1, seen \cup {ResultId(hits[n])})

RECURSIVE DedupKeepLast(_)
DedupKeepLast(hits) ==
  IF hits = << >> THEN << >>
  ELSE IF \E i \in 2..Len(hits) : ResultId(hits[i]) = ResultId(hits[1])
  THEN DedupKeepLast(Tail(hits))
  ELSE <<hits[1]>> \o DedupKeepLast(Tail(hits))

\* the deduplication loop: first occurrence kept, order preserved
Dedup(hits) == DedupFrom(hits, 1, {})

\* _get_direct_context_from_json: one search-result-like record per page of the
\* analysis JSON; n = 0 when the blob is missing or the fetch raises
DirectHit(im, uf, f, n) ==
  Hit(Name(f, n),
      Path("direct", IF im = "v2" /\ uf # NoneVal THEN uf ELSE "", f, n),
      Content(100 + n, "d", 60, 0, "none"),
      "")

get_direct_context_from_json(im, uf, f, n) == [p \in 1..n |-> DirectHit(im, uf, f, p)]

RECURSIVE DirectResults(_, _, _, _, _)
DirectResults(im, uf, files, json, i) ==
  IF i > Len(files) THEN << >>
  ELSE get_direct_context_from_json(im, uf, files[i], json[files[i]])
         \o DirectResults(im, uf, files, json, i + 1)

\* 'Combine with direct results (avoid duplicates)': a direct result is added
\* unless a search result already has its path
CombineDirect(results, direct) ==
  LET existing_paths == {results[i].path : i \in DOMAIN results}
  IN  results \o SelectSeq(direct, LAMBDA h : h.path \notin existing_paths)

\* 'Filter by user_folder (Python-side enforcement)': skipped when it would
\* remove every result
FilterByFolder(uf, results) ==
  IF uf # NoneVal /\ results # << >>
  THEN LET filtered_results == SelectSeq(results, LAMBDA h : PathContains(uf, h.path))
       IN  IF filtered_results # << >> THEN filtered_results ELSE results
  ELSE results

(* --------------------------- context assembly ------------------------- *)
\* the key of least rank in a non-empty set (ranks of distinct keys differ)
BestKey(keys, ranks) == CHOOSE k \in keys : \A o \in keys : ranks[k] <= ranks[o]

RECURSIVE SortByRank(_, _)
SortByRank(keys, ranks) ==
  IF keys = {} THEN << >>
  ELSE LET k == BestKey(keys, ranks) IN <<k>> \o SortByRank(keys \ {k}, ranks)

\* the rank order with no page put first
RankOrderOnly(keys, ranks, explicit_page) == SortByRank(keys, ranks)

\* chat_manager_v2: sort by rank, then the explicitly requested page first
RankOrder(keys, ranks, explicit_page) ==
  LET sorted == SortByRank(keys, ranks)
  IN  IF explicit_page # 0
      THEN SelectSeq(sorted, LAMBDA k : k[2] = explicit_page)
             \o SelectSeq(sorted, LAMBDA k : k[2] # explicit_page)
      ELSE sorted

\* the place of the suffix " (p.N)", N < 100, among the suffixes compared as
\* text: none first, then by first digit, ")" before a second digit
SuffixOrd(n) == IF n < 10 THEN 11 * n ELSE 11 * (n \div 10) + 1 + (n % 10)

\* the order of sorted(docs_map.keys()): "<doc>" before "<doc> (p.N)", names
\* compared as text
NameOrd(name) == (IF name.doc = DocA THEN 0 ELSE 1000) + SuffixOrd(name.sfx)

RECURSIVE SortNames(_)
SortNames(names) ==
  IF names = {} THEN << >>
  ELSE LET f == CHOOSE x \in names : \A o \in names : NameOrd(x) <= NameOrd(o)
       IN  <<f>> \o SortNames(names \ {f})

RECURSIVE RoundRobinFrom(_, _, _, _)
RoundRobinFrom(docs_map, filenames, i, j) ==
  IF \A f \in DOMAIN docs_map : i > Len(docs_map[f]) THEN << >>
  ELSE IF j > Len(filenames) THEN RoundRobinFrom(docs_map, filenames, i + 1, 1)
  ELSE (IF i <= Len(docs_map[filenames[j]]) THEN <<docs_map[filenames[j]][i]>> ELSE << >>)
         \o RoundRobinFrom(docs_map, filenames, i, j + 1)

\* chat_manager: per document by rank, then interleaved across documents
RoundRobin(keys, ranks) ==
  LET names == {k[1] : k \in keys}
      docs_map == [f \in names |-> SortByRank({k \in keys : k[1] = f}, ranks)]
  IN  RoundRobinFrom(docs_map, SortNames(names), 1, 1)

SortedKeys(im, keys, ranks, explicit_page) ==
  IF im = "v1" THEN RoundRobin(keys, ranks) ELSE RankOrder(keys, ranks, explicit_page)

TakeAll(s, n) == s

\* sorted_keys[:context_limit]
Take(s, n) == SubSeq(s, 1, Min(Len(s), n))

RECURSIVE SumLen(_, _)
SumLen(chunks, i) ==
  IF i > Len(chunks) THEN 0
  ELSE chunks[i].clen - chunks[i].noise + SumLen(chunks, i + 1)

\* length of the cleaned "\n...\n".join(chunks)
PageContentLen(chunks) ==
  IF chunks = << >> THEN 0 ELSE SumLen(chunks, 1) + chunk_separator_len * (Len(chunks) - 1)

\* 'if len(page_content) > 8000: page_content = page_content[:8000] + "..."'
Truncate(n) ==
  IF n > page_char_limit
  THEN [len |-> page_char_limit + ellipsis_len, kept |-> page_char_limit, ellipsis |-> TRUE]
  ELSE [len |-> n, kept |-> n, ellipsis |-> FALSE]

ContextEntry(key, chunks) ==
  [key |-> key, full |-> PageContentLen(chunks), text |-> Truncate(PageContentLen(chunks))]

ContextParts(keys, grouped) ==
  [i \in 1..Len(Take(keys, context_limit)) |-> ContextEntry(keys[i], grouped[keys[i]])]

Citations(keys, cmap) ==
  [i \in 1..Len(Take(keys, context_limit)) |-> cmap[keys[i]]]

(* ------------------------------ requests ------------------------------ *)
Question(ep, st, ru, li, me) ==
  [explicit_page |-> ep, structural |-> st, rule |-> ru, listy |-> li, mentions |-> me,
   special |-> FALSE]

\* a plain question that holds an operator keyword or a special character,
\* as in 'pump (P-101) AND valve?'
SpecialQuestion == [Question(0, FALSE, "none", FALSE, {}) EXCEPT !.special = TRUE]

\* what the code reads off the question: the explicit page number (0: none),
\* a structural keyword, the rule-based expansion it triggers, a list-type
\* keyword, and the selected documents it names
Questions ==
  { Question(0, FALSE, "none", FALSE, {}),
    Question(AskedPage, FALSE, "none", FALSE, {}),
    Question(0, TRUE, "none", TRUE, {}),
    Question(0, FALSE, "none", FALSE, {DocA}),
    Question(0, FALSE, "pidlist", TRUE, {}),
    Question(0, TRUE, "pidlist", TRUE, {}),
    SpecialQuestion }

Selections == { << >>, <<DocA>>, <<DocA, DocB>> }

\* _extract_filename_filter: the first available file the question names
RECURSIVE FirstMentioned(_, _, _)
FirstMentioned(files, mentions, i) ==
  IF i > Len(files) THEN NoneVal
  ELSE IF files[i] \in mentions THEN files[i]
  ELSE FirstMentioned(files, mentions, i + 1)

extract_filename_filter(q, files) == FirstMentioned(files, q.mentions, 1)

\* the filters list joined with ' and '; all three absent is Python's None
Filter(b, sc, nm, tg) == [base |-> b, scope |-> sc, named |-> nm, target |-> tg]
NoFilter == Filter(FALSE, << >>, NoneVal, NoneVal)

\* search.ismatch('"<name>"', 'metadata_storage_name'), and the caller's predicate
IsMatch(f) == [field |-> "metadata_storage_name", phrase |-> f]
BasePredicate == [field |-> "caller", phrase |-> "filter_expr"]

\* one entry of the filters list: predicates joined with ' or ' in parentheses
Conjunct(k, ts) == [kind |-> k, terms |-> ts]

\* scope_filter: one condition per selected file, None without a selection
scope_conditions(files) == [i \in DOMAIN files |-> IsMatch(files[i])]

\* a filters list that holds the named-document predicate alone when a
\* document is named
FiltersNamedOnly(fe, files, named) ==
  IF named # NoneVal THEN <<Conjunct("named", <<IsMatch(named)>>)>>
  ELSE (IF fe THEN <<Conjunct("base", <<BasePredicate>>)>> ELSE << >>)
       \o (IF files # << >> THEN <<Conjunct("scope", scope_conditions(files))>> ELSE << >>)

\* the filters list: base filter, scope filter, specific file filter, each
\* appended when it is truthy
filters(fe, files, named) ==
  (IF fe THEN <<Conjunct("base", <<BasePredicate>>)>> ELSE << >>)
  \o (IF files # << >> THEN <<Conjunct("scope", scope_conditions(files))>> ELSE << >>)
  \o (IF named # NoneVal THEN <<Conjunct("named", <<IsMatch(named)>>)>> ELSE << >>)

\* ' and '.join(filters) if filters else None, read back as the predicate
\* the backend applies
JoinAnd(fs) ==
  LET at(k) == {i \in DOMAIN fs : fs[i].kind = k}
      the(k) == fs[CHOOSE i \in at(k) : TRUE].terms
  IN  Filter(at("base") # {},
             IF at("scope") # {} THEN [j \in DOMAIN the("scope") |-> the("scope")[j].phrase] ELSE << >>,
             IF at("named") # {} THEN the("named")[1].phrase ELSE NoneVal,
             NoneVal)

FinalFilter(fe, files, q) == JoinAnd(filters(fe, files, extract_filename_filter(q, files)))

\* a retry over the whole index
GlobalRetry(fe, files) == NoFilter

\* retry_filter / fallback_filter of chat_manager: base and scope only
ScopeOnlyFilter(fe, files) == Filter(fe, files, NoneVal, NoneVal)

\* file_specific_filter of the forced inclusion: (final_filter) and (target)
FileSpecificFilter(ff, tg) == [ff EXCEPT !.target = tg]

Query(k, li) == [kind |-> k, listy |-> li]
Unbound == Query("unbound", FALSE)

\* sanitized_query: 'AND' and the special characters replaced by spaces,
\* whitespace collapsed; the question itself when it holds none of them
sanitize(q) == Query(IF q.special THEN "sanitized" ELSE "raw", q.listy)

\* a normalizer that rewrites every question
NeverSkips(im, q) == FALSE

\* the two early returns of _rewrite_query in chat_manager_v2: a page
\* reference or a structural keyword in the question
skips_rewrite(im, q) == im = "v2" /\ (q.explicit_page # 0 \/ q.structural)

\* the external paraphrase call of _rewrite_query: "none" when it is not
\* made, else its outcome llm
paraphrase_call(im, q, llm) ==
  IF skips_rewrite(im, q) \/ q.rule # "none" THEN "none" ELSE llm

\* _rewrite_query; llm is the outcome of the paraphrase call and llm_listy
\* whether its text holds a list-type keyword
rewrite_query(im, q, llm, llm_listy) ==
  IF skips_rewrite(im, q) THEN Query("raw", q.listy)
  ELSE IF q.rule # "none" THEN Query(q.rule, TRUE)
  ELSE IF llm = "fail" THEN Query("raw", q.listy)
  ELSE IF im = "v2" THEN Query("None", FALSE)
  ELSE Query("rewritten", llm_listy)

\* the use_semantic_ranker and search_mode arguments of a search call
Args(ra, mo) == [ranker |-> ra, mode |-> mo]

Call(st, qu, fi, args) ==
  [stage |-> st, query |-> qu, filter |-> fi, ranker |-> args.ranker, mode |-> args.mode]

\* a search whose exception is not caught
SearchRaises(raised, docs) == docs

\* AzureSearchManager.search: the documents found, or [] when anything raised
search(raised, docs) == IF raised THEN << >> ELSE docs

Result(o, te, ci, co, fi, hi) ==
  [outcome |-> o, text |-> te, citations |-> ci, context |-> co, filter |-> fi, hits |-> hi]

(* -------------------------- citation linkifier ------------------------ *)
\* A string the linkifier inspects is a sequence of characters. An answer
\* text is a sequence of tokens: a citation-shaped span '(label: p.N)', which
\* is what the pattern \(([^):]+):\s*p\.\s*(\d+)\) matches, or a piece the
\* pattern cannot match: plain words without parentheses, and the pieces of
\* a Markdown link '[', '](', the URL (quoted, so without '(' ')' ':' other
\* than in 'https://') and ')'.
Digits == <<"0", "1", "2", "3", "4", "5", "6", "7", "8", "9">>
DigitVal(c) == (CHOOSE i \in DOMAIN Digits : Digits[i] = c) - 1

\* int(page_text)
RECURSIVE int(_)
int(s) == IF s = << >> THEN 0 ELSE 10 * int(SubSeq(s, 1, Len(s) - 1)) + DigitVal(s[Len(s)])

\* str.lower(); 'A', 'D' and 'N' are the upper-case letters of the universe
lower(s) ==
  [i \in DOMAIN s |-> CASE s[i] = "A" -> "a"
                        [] s[i] = "D" -> "d"
                        [] s[i] = "N" -> "n"
                        [] OTHER -> s[i]]

RECURSIVE lstrip(_)
lstrip(s) == IF s # << >> /\ Head(s) = " " THEN lstrip(Tail(s)) ELSE s

RECURSIVE rstrip(_)
rstrip(s) == IF s # << >> /\ s[Len(s)] = " " THEN rstrip(SubSeq(s, 1, Len(s) - 1)) ELSE s

strip(s) == rstrip(lstrip(s))

startswith(s, prefix) == Len(prefix) <= Len(s) /\ SubSeq(s, 1, Len(prefix)) = prefix

\* 'sub in s'
contains(sub, s) == \E i \in 0..(Len(s) - Len(sub)) : SubSeq(s, i + 1, i + Len(sub)) = sub

\* s.replace(pat, ""); the one-character ellipsis is written "U+2026"
RECURSIVE remove(_, _)
remove(s, pat) ==
  IF Len(s) < Len(pat) THEN s
  ELSE IF SubSeq(s, 1, Len(pat)) = pat THEN remove(SubSeq(s, Len(pat) + 1, Len(s)), pat)
  ELSE <<Head(s)>> \o remove(Tail(s), pat)

\* position of the last c in s, 0 when there is none
LastIndex(s, c) ==
  IF \E i \in DOMAIN s : s[i] = c
  THEN CHOOSE i \in DOMAIN s : s[i] = c /\ \A j \in DOMAIN s : s[j] = c => j <= i
  ELSE 0

\* filepath.split('/')[-1]
basename(filepath) == SubSeq(filepath, LastIndex(filepath, "/") + 1, Len(filepath))

\* os.path.splitext(basename)[0]
splitext(name) ==
  LET i == LastIndex(name, ".")
  IN  IF i <= 1 THEN name ELSE SubSeq(name, 1, i - 1)

\* urllib.parse.quote(blob_name)
quote(s) == [i \in DOMAIN s |-> IF s[i] = " " THEN "%20" ELSE s[i]]

\* a label shorter than this is never matched as a prefix
prefix_min_len == 5

CitationEntry(fp, pg, ti, tn) == [filepath |-> fp, page |-> pg, title |-> ti, title_null |-> tn]

\* the rule by which a citation of the right page matches a label: 1 exact
\* basename, 2 basename without extension, 3 prefix, 4 title, 0 none;
\* -1 when title is None and .lower() raises
MatchRule(cit, fname_text) ==
  LET fname_text_lower == strip(lower(fname_text))
      base == lower(basename(cit.filepath))
      clean_fname == strip(remove(remove(fname_text_lower, <<".", ".", ".">>), <<"U+2026">>))
      title == lower(cit.title)
  IN  IF fname_text_lower = base THEN 1
      ELSE IF fname_text_lower = splitext(base) THEN 2
      ELSE IF Len(clean_fname) > prefix_min_len /\ startswith(base, clean_fname) THEN 3
      ELSE IF cit.title_null THEN -1
      ELSE IF title # << >> /\ (contains(fname_text_lower, title) \/ contains(title, fname_text_lower))
           THEN 4
      ELSE 0

\* the loop of find_citation from entry i on: the index of the citation it
\* returns, 0 for None (no entry matches, or the bare 'except' caught a raise)
RECURSIVE FindFrom(_, _, _, _)
FindFrom(cits, i, fname_text, page_num) ==
  IF i > Len(cits) THEN 0
  ELSE IF cits[i].page # page_num THEN FindFrom(cits, i + 1, fname_text, page_num)
  ELSE LET r == MatchRule(cits[i], fname_text)
       IN  IF r > 0 THEN i
           ELSE IF r < 0 THEN 0
           ELSE FindFrom(cits, i + 1, fname_text, page_num)

\* as FindFrom, but an entry is taken whatever its page
FindAnyPage(cits, fname_text, page_text) ==
  IF \E i \in DOMAIN cits : MatchRule(cits[i], fname_text) > 0
  THEN CHOOSE i \in DOMAIN cits : MatchRule(cits[i], fname_text) > 0
  ELSE 0

find_citation(cits, fname_text, page_text) == FindFrom(cits, 1, fname_text, int(page_text))

Url(bl, fr) == [blob |-> bl, frag |-> fr]
NoUrl == Url(<< >>, << >>)

\* generate_blob_sas: None when the SAS token cannot be made
generate_blob_sas(blob_name, fails) ==
  IF blob_name \in fails THEN NoUrl ELSE Url(quote(blob_name), << >>)

Tok(kind, lb, pg, u) == [k |-> kind, label |-> lb, page |-> pg, url |-> u]
Plain(w) == Tok("txt", w, << >>, NoUrl)
Span(lb, pg) == Tok("span", lb, pg, NoUrl)
LinkOpen == Tok("[", << >>, << >>, NoUrl)
LinkMid == Tok("](", << >>, << >>, NoUrl)
LinkUrl(u) == Tok("url", << >>, << >>, u)
LinkClose == Tok(")", << >>, << >>, NoUrl)

\* replace_match: what one match of the pattern is replaced by
replace_match(tok, cits, fails) ==
  LET cit == find_citation(cits, tok.label, tok.page)
      filepath == cits[cit].filepath
      url == generate_blob_sas(filepath, fails)
  IN  IF cit # 0 /\ filepath # << >> /\ url # NoUrl
      THEN <<LinkOpen, tok, LinkMid, LinkUrl([url EXCEPT !.frag = tok.page]), LinkClose>>
      ELSE <<tok>>

\* re.sub(pattern, replace_match, text)
RECURSIVE Sub(_, _, _, _)
Sub(text, i, cits, fails) ==
  IF i > Len(text) THEN << >>
  ELSE (IF text[i].k = "span" THEN replace_match(text[i], cits, fails) ELSE <<text[i]>>)
         \o Sub(text, i + 1, cits, fails)

linkify_citations(text, cits, fails) ==
  IF text = << >> \/ cits = << >> THEN text ELSE Sub(text, 1, cits, fails)

(* ------------------- the sanitizer of the precision pass -------------- *)
\* the class [&+\-|!(){}\[\]^"~*?:\\] of the second re.sub
SpecialChars ==
  {"&", "+", "-", "|", "!", "(", ")", "{", "}", "[", "]", "^", "\"", "~", "*", "?", ":", "\\"}

\* what str.split() splits on; "TAB" is the tabulator
Whitespace == {" ", "TAB"}

\* \w of a Python 3 str pattern: letters, digits and the underscore
IsWordChar(c) ==
  c \in {"a", "n", "d", "A", "N", "D", "x", "p", "f", "r", "w", "u", "_"} \cup Range(Digits)

\* \b before position i of s: exactly one of s[i-1], s[i] is a word character
WordBoundary(s, i) ==
  LET before == i > 1 /\ IsWordChar(s[i - 1])
      after == i <= Len(s) /\ IsWordChar(s[i])
  IN before # after

\* re.sub(r'\bAND\b', ' ', s, flags=re.IGNORECASE), scanning from position i
RECURSIVE SubAndFrom(_, _)
SubAndFrom(s, i) ==
  IF i > Len(s) THEN << >>
  ELSE IF /\ i + 2 <= Len(s)
          /\ lower(SubSeq(s, i, i + 2)) = <<"a", "n", "d">>
          /\ WordBoundary(s, i)
          /\ WordBoundary(s, i + 3)
       THEN <<" ">> \o SubAndFrom(s, i + 3)
       ELSE <<s[i]>> \o SubAndFrom(s, i + 1)

\* the AND keyword left in the text
KeepAnd(s) == s

sub_AND(s) == SubAndFrom(s, 1)

\* re.sub(r'[&+\-|!(){}\[\]^"~*?:\\]', ' ', s)
sub_special(s) == [i \in DOMAIN s |-> IF s[i] \in SpecialChars THEN " " ELSE s[i]]

\* str.split(): the maximal runs of non-whitespace characters from position i
\* on, cur being the run read so far
RECURSIVE SplitFrom(_, _, _)
SplitFrom(s, i, cur) ==
  LET done == IF cur = << >> THEN << >> ELSE <<cur>>
  IN IF i > Len(s) THEN done
     ELSE IF s[i] \in Whitespace THEN done \o SplitFrom(s, i + 1, << >>)
     ELSE SplitFrom(s, i + 1, Append(cur, s[i]))

split(s) == SplitFrom(s, 1, << >>)

\* " ".join(words)
RECURSIVE join(_)
join(words) ==
  IF words = << >> THEN << >>
  ELSE IF Len(words) = 1 THEN words[1]
  ELSE words[1] \o <<" ">> \o join(Tail(words))

\* the three statements that compute sanitized_query from user_message
sanitized_query(message) == join(split(sub_special(sub_AND(message))))

(* ---------------- the named-document matcher on texts ------------------ *)
\* f put into a list that is in descending length, after the names that are
\* at least as long
InsertByLen(sorted, f) ==
  LET n == Cardinality({i \in DOMAIN sorted : Len(sorted[i]) >= Len(f)})
  IN  SubSeq(sorted, 1, n) \o <<f>> \o SubSeq(sorted, n + 1, Len(sorted))

\* sorted(available_files, key=len, reverse=True): stable
RECURSIVE sorted_files(_)
sorted_files(files) ==
  IF files = << >> THEN << >>
  ELSE InsertByLen(sorted_files(SubSeq(files, 1, Len(files) - 1)), files[Len(files)])

\* 'filename_lower in msg_lower or name_no_ext in msg_lower'
Mentioned(filename, msg_lower) ==
  \/ contains(lower(filename), msg_lower)
  \/ contains(lower(splitext(filename)), msg_lower)

\* the for loop: the first name of the list the message holds, else None
RECURSIVE matched_file(_, _, _)
matched_file(files, msg_lower, i) ==
  IF i > Len(files) THEN << >>
  ELSE IF Mentioned(files[i], msg_lower) THEN files[i]
  ELSE matched_file(files, msg_lower, i + 1)

\* the quote doubled for OData, a backslash put before each reserved character
RECURSIVE escaped_filename(_)
escaped_filename(name) ==
  IF name = << >> THEN << >>
  ELSE (IF Head(name) = "'" THEN <<"'", "'">>
        ELSE IF Head(name) \in SpecialChars THEN <<"\\", Head(name)>>
        ELSE <<Head(name)>>) \o escaped_filename(Tail(name))

\* search.ismatch('"<escaped name>"', 'metadata_storage_name'); None when no
\* candidate is named
NamePredicate(name) ==
  IF name = << >> THEN [field |-> NoneVal, phrase |-> << >>]
  ELSE [field |-> "metadata_storage_name", phrase |-> escaped_filename(name)]

\* _extract_filename_filter on the text of the question
filename_filter(message, files) ==
  IF files = << >> THEN NamePredicate(<< >>)
  ELSE NamePredicate(matched_file(sorted_files(files), lower(message), 1))

(* ------------------------------- state -------------------------------- *)
VARIABLES
  impl, user_message, conversation_history, filter_expr, available_files,
  user_folder, json_pages,
  pc, direct_results, exact_results, exact_match_count, expanded_results,
  search_query, deduped_results, search_results, calls, target_index,
  rank, grouped_context, citations_map, page_ranks,
  sorted_keys, context_parts, citations, returned,
  answer_text, link_citations, sas_fails, linked_once, linked_twice, lk_pc,
  paraphrase,
  sz_message, sanitized_once, sanitized_twice, sz_pc,
  fm_message, fm_files, fm_filter, fm_pc,
  search_mode, use_semantic_ranker, search_fails

inputs == <<impl, user_message, conversation_history, filter_expr, available_files,
            user_folder, json_pages>>
searching == <<direct_results, exact_results, exact_match_count, expanded_results,
               search_query, deduped_results, search_results, calls, target_index>>
aggregation == <<rank, grouped_context, citations_map, page_ranks>>
assembly == <<sorted_keys, context_parts, citations>>
linkifier == <<answer_text, link_citations, sas_fails, linked_once, linked_twice, lk_pc>>
sanitizer == <<sz_message, sanitized_once, sanitized_twice, sz_pc>>
matcher == <<fm_message, fm_files, fm_filter, fm_pc>>
textual == <<sanitizer, matcher>>
search_args == <<search_mode, use_semantic_ranker, search_fails>>
vars == <<inputs, pc, searching, aggregation, assembly, returned, linkifier, paraphrase,
          textual, search_args>>

final_filter == FinalFilter(filter_expr, available_files, user_message)
specific_file_filter == extract_filename_filter(user_message, available_files)
scope_filter == available_files

\* the ranker and mode arguments the caller passed
caller_args == Args(use_semantic_ranker, search_mode)

\* the precision pass searching as the caller asked
PrecisionAsCaller == Args(use_semantic_ranker, search_mode)

\* use_semantic_ranker=False, search_mode="all" of the precision pass
precision_args == Args(FALSE, "all")

NotReturned == Result("running", "", << >>, "", NoFilter, << >>)
\* an exception that leaves get_chat_response: nothing is returned
Uncaught == Result("running", "", << >>, "", NoFilter, << >>)

\* the outer 'except Exception' of get_chat_response
ErrorReturn == Result("error", "error", << >>, "", NoFilter, << >>)

\* nothing searched, aggregated, assembled or returned yet
InitRest ==
  /\ direct_results = << >>
  /\ exact_results = << >>
  /\ exact_match_count = 0
  /\ expanded_results = << >>
  /\ search_query = Unbound
  /\ deduped_results = << >>
  /\ calls = << >>
  /\ target_index = 1
  /\ rank = 0
  /\ grouped_context = << >>
  /\ citations_map = << >>
  /\ page_ranks = << >>
  /\ sorted_keys = << >>
  /\ context_parts = << >>
  /\ citations = << >>
  /\ returned = NotReturned
  /\ paraphrase = "none"

\* _linkify_citations not called
LinkifierIdle ==
  /\ answer_text = << >>
  /\ link_citations = << >>
  /\ sas_fails = {}
  /\ linked_once = << >>
  /\ linked_twice = << >>
  /\ lk_pc = "idle"

\* the defaults of get_chat_response, and no search raising
DefaultArgs ==
  /\ search_mode = "any"
  /\ use_semantic_ranker = FALSE
  /\ search_fails = {}

\* the sanitizer and _extract_filename_filter not called on a text
TextIdle ==
  /\ sz_message = << >>
  /\ sanitized_once = << >>
  /\ sanitized_twice = << >>
  /\ sz_pc = "idle"
  /\ fm_message = << >>
  /\ fm_files = << >>
  /\ fm_filter = NamePredicate(<< >>)
  /\ fm_pc = "idle"

Init ==
  /\ LinkifierIdle
  /\ TextIdle
  /\ DefaultArgs
  /\ impl \in {"v1", "v2"}
  /\ user_message \in Questions
  /\ conversation_history = FALSE
  /\ filter_expr \in BOOLEAN
  /\ available_files \in Selections
  /\ user_folder \in {NoneVal, FolderMine}
  /\ json_pages \in {[d \in Docs |-> IF d = DocA THEN n ELSE 0] : n \in {0, DirectPages}}
  /\ pc = "start"
  /\ search_results = << >>
  /\ InitRest

(* ------------------------------ actions ------------------------------- *)
\* where the aggregation loop starts, or is skipped for an empty list
LoopPc(results) == IF results = << >> THEN "assemble" ELSE "aggregate"

\* 1.5 direct context retrieval for every selected file
DirectContextRetrieval ==
  /\ pc = "start"
  /\ direct_results' = DirectResults(impl, user_folder, available_files, json_pages, 1)
  /\ pc' = IF impl = "v2" THEN "stage1" ELSE "rewrite"
  /\ UNCHANGED <<linkifier, textual, search_args, paraphrase, inputs, exact_results, exact_match_count, expanded_results, search_query,
                 deduped_results, search_results, calls, target_index,
                 aggregation, assembly, returned>>

NeedsRecallUpTo(count) == count <= EXACT_MATCH_THRESHOLD

\* 'if exact_match_count < EXACT_MATCH_THRESHOLD': stage 2 is needed
NeedsRecall(count) == count < EXACT_MATCH_THRESHOLD

\* stage 1 of chat_manager_v2: the sanitized query, mode all, ranker off
PrecisionPass ==
  /\ pc = "stage1"
  /\ \E docs \in ResultLists :
       LET r == search("stage1" \in search_fails, docs)
       IN /\ exact_results' = r
          /\ exact_match_count' = Len(r)
          /\ search_results' = r
          /\ pc' = IF NeedsRecall(Len(r)) THEN "rewrite" ELSE "merge"
  /\ calls' = Append(calls, Call("stage1", sanitize(user_message), final_filter, precision_args))
  /\ UNCHANGED <<linkifier, textual, search_args, paraphrase, inputs, direct_results, expanded_results, search_query, deduped_results,
                 target_index, aggregation, assembly, returned>>

\* search_query = self._rewrite_query(user_message)
RewriteQuery ==
  /\ pc = "rewrite"
  /\ \E llm \in {"ok", "fail"}, llm_listy \in BOOLEAN :
       /\ llm = "fail" => ~llm_listy
       /\ search_query' = rewrite_query(impl, user_message, llm, llm_listy)
       /\ paraphrase' = paraphrase_call(impl, user_message, llm)
  /\ pc' = IF impl = "v2" THEN "stage2" ELSE "main"
  /\ UNCHANGED <<linkifier, textual, search_args, inputs, direct_results, exact_results, exact_match_count, expanded_results,
                 deduped_results, search_results, calls, target_index,
                 aggregation, assembly, returned>>

\* stage 2 of chat_manager_v2: the expanded query, caller's mode and ranker
RecallPass ==
  /\ pc = "stage2"
  /\ \E docs \in ResultLists :
       LET r == search("stage2" \in search_fails, docs)
       IN /\ expanded_results' = r
          /\ search_results' = search_results \o r
  /\ calls' = Append(calls, Call("stage2", search_query, final_filter, caller_args))
  /\ pc' = "merge"
  /\ UNCHANGED <<linkifier, textual, search_args, paraphrase, inputs, direct_results, exact_results, exact_match_count, search_query,
                 deduped_results, target_index, aggregation, assembly, returned>>

\* the deduplication of the concatenated stage-1 and stage-2 hits
MergeResults ==
  /\ pc = "merge"
  /\ deduped_results' = Dedup(search_results)
  /\ search_results' = Dedup(search_results)
  /\ pc' = "combine"
  /\ UNCHANGED <<linkifier, textual, search_args, paraphrase, inputs, direct_results, exact_results, exact_match_count, expanded_results,
                 search_query, calls, target_index, aggregation, assembly, returned>>

\* the single search of chat_manager
MainSearch ==
  /\ pc = "main"
  /\ \E r \in ResultLists : search_results' = r
  /\ calls' = Append(calls, Call("main", search_query, final_filter, caller_args))
  /\ pc' = "combine"
  /\ UNCHANGED <<linkifier, textual, search_args, paraphrase, inputs, direct_results, exact_results, exact_match_count, expanded_results,
                 search_query, deduped_results, target_index, aggregation, assembly, returned>>

\* the next step of chat_manager after a search: retry, wildcard, forced
\* inclusion or the aggregation loop
AfterSearchPc(results, retried) ==
  IF ~retried /\ results = << >> /\ specific_file_filter # NoneVal THEN "retry"
  ELSE IF results = << >> /\ scope_filter # << >> THEN "wildcard"
  ELSE IF available_files # << >> THEN "forced"
  ELSE LoopPc(results)

\* direct results appended, then the user_folder filter; in chat_manager_v2 the
\* debug print that follows reads search_query, which is unbound when stage 2
\* was skipped, and the outer handler returns the error tuple
CombineAndFilter ==
  /\ pc = "combine"
  /\ LET combined == FilterByFolder(user_folder, CombineDirect(search_results, direct_results))
     IN  /\ search_results' = combined
         /\ IF impl = "v2" /\ search_query = Unbound
            THEN pc' = "done" /\ returned' = ErrorReturn
            ELSE /\ pc' = IF impl = "v2" THEN LoopPc(combined) ELSE AfterSearchPc(combined, FALSE)
                 /\ UNCHANGED returned
  /\ UNCHANGED <<linkifier, textual, search_args, paraphrase, inputs, direct_results, exact_results, exact_match_count, expanded_results,
                 search_query, deduped_results, calls, target_index, aggregation, assembly>>

\* chat_manager fallback 1: retry without the named-document predicate
RetryWithoutNamed ==
  /\ pc = "retry"
  /\ \E r \in ResultLists :
       /\ search_results' = FilterByFolder(user_folder, r)
       /\ pc' = AfterSearchPc(FilterByFolder(user_folder, r), TRUE)
  /\ calls' = Append(calls, Call("retry", search_query, ScopeOnlyFilter(filter_expr, available_files), caller_args))
  /\ UNCHANGED <<linkifier, textual, search_args, paraphrase, inputs, direct_results, exact_results, exact_match_count, expanded_results,
                 search_query, deduped_results, target_index, aggregation, assembly, returned>>

\* chat_manager fallback 2: the wildcard query within the selection
WildcardFallback ==
  /\ pc = "wildcard"
  /\ \E r \in ResultLists : search_results' = FilterByFolder(user_folder, r)
  /\ calls' = Append(calls, Call("wildcard", Query("*", FALSE), ScopeOnlyFilter(filter_expr, available_files), caller_args))
  /\ pc' = "forced"
  /\ UNCHANGED <<linkifier, textual, search_args, paraphrase, inputs, direct_results, exact_results, exact_match_count, expanded_results,
                 search_query, deduped_results, target_index, aggregation, assembly, returned>>

\* chat_manager step 4, one selected file per step: its first pages by a
\* wildcard query, and a list query when the search query is list-related
ForcedInclusion ==
  /\ pc = "forced"
  /\ target_index <= Len(available_files)
  /\ LET target_file == available_files[target_index]
         file_specific_filter == FileSpecificFilter(final_filter, target_file)
         index_call == Call("forced_index", Query("*", FALSE), file_specific_filter, Args(FALSE, "all"))
         list_call == Call("forced_list", Query("list_query", TRUE), file_specific_filter, Args(FALSE, "any"))
     IN  \E index_pages \in ForcedLists, list_results \in ForcedLists :
           /\ ~search_query.listy => list_results = << >>
           /\ search_results' = search_results \o index_pages \o list_results
           /\ calls' = IF search_query.listy
                       THEN calls \o <<index_call, list_call>>
                       ELSE Append(calls, index_call)
           /\ pc' = IF target_index < Len(available_files) THEN "forced"
                    ELSE LoopPc(search_results \o index_pages \o list_results)
  /\ target_index' = target_index + 1
  /\ UNCHANGED <<linkifier, textual, search_args, paraphrase, inputs, direct_results, exact_results, exact_match_count, expanded_results,
                 search_query, deduped_results, aggregation, assembly, returned>>

\* step 5, one hit per step: 'for rank, result in enumerate(search_results)'
AggregateHit ==
  /\ pc = "aggregate"
  /\ rank < Len(search_results)
  /\ LET agg == AggStep(impl, user_folder,
                        [grouped_context |-> grouped_context,
                         citations_map |-> citations_map,
                         page_ranks |-> page_ranks],
                        rank, search_results[rank + 1])
     IN  /\ grouped_context' = agg.grouped_context
         /\ citations_map' = agg.citations_map
         /\ page_ranks' = agg.page_ranks
  /\ rank' = rank + 1
  /\ pc' = IF rank + 1 < Len(search_results) THEN "aggregate" ELSE "assemble"
  /\ UNCHANGED <<linkifier, textual, search_args, paraphrase, inputs, searching, assembly, returned>>

\* context construction: order the keys, keep context_limit of them, cut each
\* page to the character limit; no page and no history returns 'no documents'.
\* conversation_history is first read here, so its value is drawn here
AssembleContext ==
  /\ pc = "assemble"
  /\ conversation_history' \in BOOLEAN
  /\ LET keys == SortedKeys(impl, DOMAIN grouped_context, page_ranks, user_message.explicit_page)
         parts == ContextParts(keys, grouped_context)
     IN  /\ sorted_keys' = keys
         /\ context_parts' = parts
         /\ citations' = Citations(keys, citations_map)
         /\ IF parts = << >> /\ ~conversation_history'
            THEN /\ returned' = Result("no_results", "none found", << >>, "", final_filter, << >>)
                 /\ pc' = "done"
            ELSE /\ UNCHANGED returned
                 /\ pc' = "answer"
  /\ UNCHANGED <<linkifier, textual, search_args, paraphrase, impl, user_message, filter_expr, available_files, user_folder, json_pages,
                 searching, aggregation>>

\* a context string that is empty when no page is left
ContextStringEmpty == IF context_parts # << >> THEN "pages" ELSE ""

\* the context string handed to the model
ContextString == IF context_parts # << >> THEN "pages" ELSE "(No new documents found. Use conversation history.)"

\* the answer-model call; its failure returns the LLM error text with the
\* citations, the context, the filter and the hits
CallModel ==
  /\ pc = "answer"
  /\ \E llm \in {"ok", "fail"} :
       returned' = Result(IF llm = "ok" THEN "answer" ELSE "llm_error",
                          IF llm = "ok" THEN "answer" ELSE "llm error",
                          citations, ContextString, final_filter, search_results)
  /\ pc' = "done"
  /\ UNCHANGED <<linkifier, textual, search_args, paraphrase, inputs, searching, aggregation, assembly>>

Next ==
  \/ DirectContextRetrieval
  \/ PrecisionPass
  \/ RewriteQuery
  \/ RecallPass
  \/ MergeResults
  \/ MainSearch
  \/ CombineAndFilter
  \/ RetryWithoutNamed
  \/ WildcardFallback
  \/ ForcedInclusion
  \/ AggregateHit
  \/ AssembleContext
  \/ CallModel

Spec == Init /\ [][Next]_vars

(* ------------- the aggregator and assembler on any hit list ----------- *)
\* the pages of a large document, as the direct fetch of its JSON lists them
BulkList(d, n) == [p \in 1..n |-> DirectHit("v2", FolderMine, d, p)]

\* hit lists handed to the aggregation loop: search hits followed by the pages
\* of one or two large documents
AggregatorInputs ==
  { r \o BulkList(DocA, n) \o BulkList(DocB, m) :
      r \in ResultLists, n \in {0, BulkPages}, m \in {0, 3, AskedPage} }

InitAggregator ==
  /\ LinkifierIdle
  /\ TextIdle
  /\ DefaultArgs
  /\ impl \in {"v1", "v2"}
  /\ user_message \in Questions
  /\ conversation_history = FALSE
  /\ filter_expr = FALSE
  /\ available_files = << >>
  /\ user_folder \in {NoneVal, FolderMine}
  /\ json_pages = [d \in Docs |-> 0]
  /\ search_results \in AggregatorInputs
  /\ pc = LoopPc(search_results)
  /\ InitRest

NextAggregator ==
  \/ AggregateHit
  \/ AssembleContext
  \/ CallModel

AggregatorSpec == InitAggregator /\ [][NextAggregator]_vars

(* ------------- the linkifier on any answer text and citations --------- *)
Str_draw_1 == <<"d", "r", "a", "w", "-", "1">>
Str_pdf == <<".", "p", "d", "f">>
Str_folder == <<"u", "1", "/">>

\* u1/draw-10.pdf p.1; 'b 1.pdf' p.1 titled 'Draw-1 plan'; u1/draw-1.pdf p.1
\* and p.2; c.pdf p.1 whose title is None; an entry without filepath
cit10 == CitationEntry(Str_folder \o Str_draw_1 \o <<"0">> \o Str_pdf, 1, << >>, FALSE)
citT == CitationEntry(<<"b", " ", "1">> \o Str_pdf, 1, <<"D">> \o Tail(Str_draw_1) \o <<" ", "p", "l", "a", "n">>, FALSE)
cit1 == CitationEntry(Str_folder \o Str_draw_1 \o Str_pdf, 1, << >>, FALSE)
cit1p2 == CitationEntry(Str_folder \o Str_draw_1 \o Str_pdf, 2, << >>, FALSE)
citNull == CitationEntry(<<"c">> \o Str_pdf, 1, << >>, TRUE)
citNoPath == CitationEntry(<< >>, 2, Str_draw_1, FALSE)
CitationEntries == {cit10, citT, cit1, cit1p2, citNull, citNoPath}

\* citation lists of at most n distinct entries
CitationLists(n) ==
  UNION { { c \in [1..m -> CitationEntries] : \A i, j \in 1..m : i # j => c[i] # c[j] } : m \in 0..n }

\* 'draw-1.pdf', 'Draw-1', 'draw-1...', ' draw-10.pdf ', 'zzz'
Labels ==
  { Str_draw_1 \o Str_pdf,
    <<"D">> \o Tail(Str_draw_1),
    Str_draw_1 \o <<".", ".", ".">>,
    <<" ">> \o Str_draw_1 \o <<"0">> \o Str_pdf \o <<" ">>,
    <<"z", "z", "z">> }
PageTexts == { <<"1">>, <<"0", "2">> }
Spans == { Span(l, p) : l \in Labels, p \in PageTexts }
Words == Plain(<<"s", "e", "e", " ">>)

\* answer texts with at most n spans, words between them
RECURSIVE AnswerTexts(_)
AnswerTexts(n) ==
  IF n = 0 THEN { << >>, <<Words>> }
  ELSE AnswerTexts(n - 1) \cup
         { t \o <<sp, Words>> : t \in { x \in AnswerTexts(n - 1) : Len(x) = 2 * n - 1 }, sp \in Spans }

InitLinkifier ==
  /\ TextIdle
  /\ DefaultArgs
  /\ impl = "v2"
  /\ user_message = Question(0, FALSE, "none", FALSE, {})
  /\ conversation_history = FALSE
  /\ filter_expr = FALSE
  /\ available_files = << >>
  /\ user_folder = NoneVal
  /\ json_pages = [d \in Docs |-> 0]
  /\ search_results = << >>
  /\ pc = "linkify"
  /\ InitRest
  /\ answer_text \in AnswerTexts(MaxSpans)
  /\ link_citations \in CitationLists(MaxCitations)
  /\ sas_fails \in { {}, {cit1.filepath} }
  /\ linked_once = << >>
  /\ linked_twice = << >>
  /\ lk_pc = "call"

\* response_text = self._linkify_citations(response_text, citations)
Linkify ==
  /\ lk_pc = "call"
  /\ linked_once' = linkify_citations(answer_text, link_citations, sas_fails)
  /\ lk_pc' = "once"
  /\ UNCHANGED <<inputs, pc, searching, aggregation, assembly, returned, paraphrase, textual, search_args,
                 answer_text, link_citations, sas_fails, linked_twice>>

\* the linkifier applied to its own output, with the same citations
LinkifyAgain ==
  /\ lk_pc = "once"
  /\ linked_twice' = linkify_citations(linked_once, link_citations, sas_fails)
  /\ lk_pc' = "twice"
  /\ UNCHANGED <<inputs, pc, searching, aggregation, assembly, returned, paraphrase, textual, search_args,
                 answer_text, link_citations, sas_fails, linked_once>>

NextLinkifier ==
  \/ Linkify
  \/ LinkifyAgain

LinkifySpec == InitLinkifier /\ [][NextLinkifier]_vars

(* --------------- the merge step on any two stage results -------------- *)
\* a page-less hit named 'A.pdf' whose short content is ' (p.7)x', the hit
\* 'A.pdf (p.7)' whose content is 'x', and a hit with the name and the first
\* 50 characters of hA7 but another text after them
hC0 == Hit(Name(DocA, 0), EmptyPath, ContentText(7, <<" (p.", "7", ")", "x">>, 7, 0, "none"), "")
hC7 == Hit(Name(DocA, 7), Path("blob", FolderMine, DocA, 7), ContentText(8, <<"x">>, 1, 0, "none"), "")
hA7c == Hit(Name(DocA, 7), Path("blob", FolderMine, DocA, 7), Content(9, "x1", 90, 0, "none"), "")
MergeHits == {hA7, hA7c, hC0, hC7, hB1}

\* result lists of at most n hits
MergeLists(n) == UNION { [1..m -> MergeHits] : m \in 0..n }

InitMerge ==
  /\ LinkifierIdle
  /\ TextIdle
  /\ DefaultArgs
  /\ impl = "v2"
  /\ user_message = Question(0, FALSE, "none", FALSE, {})
  /\ conversation_history = FALSE
  /\ filter_expr = FALSE
  /\ available_files = << >>
  /\ user_folder = NoneVal
  /\ json_pages = [d \in Docs |-> 0]
  /\ pc = "merge"
  /\ direct_results = << >>
  /\ exact_results \in MergeLists(MaxStage)
  /\ exact_match_count = Len(exact_results)
  /\ expanded_results \in MergeLists(MaxStage)
  /\ NeedsRecall(exact_match_count) \/ expanded_results = << >>
  /\ search_query = IF NeedsRecall(exact_match_count) THEN Query("raw", FALSE) ELSE Unbound
  /\ search_results = exact_results \o expanded_results
  /\ deduped_results = << >>
  /\ calls = <<Call("stage1", sanitize(user_message), NoFilter, precision_args)>>
               \o (IF NeedsRecall(exact_match_count)
                   THEN <<Call("stage2", search_query, NoFilter, caller_args)>> ELSE << >>)
  /\ target_index = 1
  /\ rank = 0
  /\ grouped_context = << >>
  /\ citations_map = << >>
  /\ page_ranks = << >>
  /\ sorted_keys = << >>
  /\ context_parts = << >>
  /\ citations = << >>
  /\ returned = NotReturned
  /\ paraphrase = IF NeedsRecall(exact_match_count) THEN "fail" ELSE "none"

NextMerge == MergeResults

MergeSpec == InitMerge /\ [][NextMerge]_vars

(* ---------------- the sanitizer on any question text ------------------ *)
\* pieces a question text is made of
Pieces ==
  { <<"A", "N", "D">>, <<"a", "n", "D">>, <<"x">>, <<"_">>, <<" ">>, <<"TAB">>,
    <<"&">>, <<"\\">>, <<"(">>, <<".">> }

\* the texts made of at most n pieces
RECURSIVE Texts(_)
Texts(n) ==
  IF n = 0 THEN { << >> }
  ELSE Texts(n - 1) \cup { t \o p : t \in Texts(n - 1), p \in Pieces }

InitSanitizer ==
  /\ LinkifierIdle
  /\ impl = "v2"
  /\ user_message = SpecialQuestion
  /\ conversation_history = FALSE
  /\ filter_expr = FALSE
  /\ available_files = << >>
  /\ user_folder = NoneVal
  /\ json_pages = [d \in Docs |-> 0]
  /\ search_results = << >>
  /\ pc = "sanitize"
  /\ InitRest
  /\ sz_message \in Texts(MaxPieces)
  /\ sanitized_once = << >>
  /\ sanitized_twice = << >>
  /\ sz_pc = "call"
  /\ fm_message = << >>
  /\ fm_files = << >>
  /\ fm_filter = NamePredicate(<< >>)
  /\ fm_pc = "idle"
  /\ DefaultArgs

\* sanitized_query computed from the question
Sanitize ==
  /\ sz_pc = "call"
  /\ sanitized_once' = sanitized_query(sz_message)
  /\ sz_pc' = "once"
  /\ UNCHANGED <<inputs, pc, searching, aggregation, assembly, returned, linkifier,
                 paraphrase, matcher, search_args, sz_message, sanitized_twice>>

\* the sanitizer applied to its own output
SanitizeAgain ==
  /\ sz_pc = "once"
  /\ sanitized_twice' = sanitized_query(sanitized_once)
  /\ sz_pc' = "twice"
  /\ UNCHANGED <<inputs, pc, searching, aggregation, assembly, returned, linkifier,
                 paraphrase, matcher, search_args, sz_message, sanitized_once>>

NextSanitizer ==
  \/ Sanitize
  \/ SanitizeAgain

SanitizeSpec == InitSanitizer /\ [][NextSanitizer]_vars

(* ------- the two search stages under any arguments and failures ------- *)
InitTwoStage ==
  /\ LinkifierIdle
  /\ TextIdle
  /\ impl = "v2"
  /\ user_message \in Questions
  /\ conversation_history = FALSE
  /\ filter_expr \in BOOLEAN
  /\ available_files \in Selections
  /\ user_folder = NoneVal
  /\ json_pages = [d \in Docs |-> 0]
  /\ search_results = << >>
  /\ pc = "stage1"
  /\ InitRest
  /\ search_mode \in {"any", "all"}
  /\ use_semantic_ranker \in BOOLEAN
  /\ search_fails \in SUBSET {"stage1", "stage2"}

NextTwoStage ==
  \/ PrecisionPass
  \/ RewriteQuery
  \/ RecallPass
  \/ MergeResults

TwoStageSpec == InitTwoStage /\ [][NextTwoStage]_vars

(* ------------- the named-document matcher on any question ------------- *)
\* candidate names: 'd' is inside 'dr'; the extensions differ in length
Str_d_pdf == <<"d", ".", "p", "d", "f">>
Str_dr_pdf == <<"d", "r", ".", "p", "d", "f">>
Str_d_docx == <<"d", ".", "d", "o", "c", "x">>
Str_w_1_pdf == <<"w", "-", "1", ".", "p", "d", "f">>
CandidateNames == {Str_d_pdf, Str_dr_pdf, Str_d_docx, Str_w_1_pdf}

\* lists of at most n distinct candidates
FileLists(n) ==
  { f \in UNION { [1..m -> CandidateNames] : m \in 0..n } :
      \A i, j \in DOMAIN f : i # j => f[i] # f[j] }

\* pieces of a question that names documents
MentionPieces ==
  { <<"D">>, <<"d">>, <<"r">>, <<" ">>, <<"x">>, <<"w", "-", "1">>, <<".", "p", "d", "f">> }

RECURSIVE Mentions(_)
Mentions(n) ==
  IF n = 0 THEN { << >> }
  ELSE Mentions(n - 1) \cup { t \o p : t \in Mentions(n - 1), p \in MentionPieces }

InitMatcher ==
  /\ LinkifierIdle
  /\ DefaultArgs
  /\ impl = "v2"
  /\ user_message = Question(0, FALSE, "none", FALSE, {})
  /\ conversation_history = FALSE
  /\ filter_expr = FALSE
  /\ available_files = << >>
  /\ user_folder = NoneVal
  /\ json_pages = [d \in Docs |-> 0]
  /\ search_results = << >>
  /\ pc = "match"
  /\ InitRest
  /\ sz_message = << >>
  /\ sanitized_once = << >>
  /\ sanitized_twice = << >>
  /\ sz_pc = "idle"
  /\ fm_message \in Mentions(MaxMention)
  /\ fm_files \in FileLists(MaxFiles)
  /\ fm_filter = NamePredicate(<< >>)
  /\ fm_pc = "call"

\* specific_file_filter = self._extract_filename_filter(user_message, available_files)
ExtractFilenameFilter ==
  /\ fm_pc = "call"
  /\ fm_filter' = filename_filter(fm_message, fm_files)
  /\ fm_pc' = "done"
  /\ UNCHANGED <<inputs, pc, searching, aggregation, assembly, returned, linkifier,
                 paraphrase, sanitizer, search_args, fm_message, fm_files>>

NextMatcher == ExtractFilenameFilter

MatcherSpec == InitMatcher /\ [][NextMatcher]_vars

(* ---------------- the citation of a hit of any path form -------------- *)
\* forms of metadata_storage_path: the direct-fetch URI, a blob URL of the
\* container, a relative path, an http URL outside the container, a URI of
\* another scheme, and no path
PathForms == {"direct", "blob", "rel", "other", "uri", "empty"}

\* hits of page 7 of A.pdf: the page number on the name, on the path, or both
CitationHits ==
  { Hit(Name(DocA, s),
        IF f = "empty" THEN EmptyPath ELSE Path(f, FolderMine, DocA, p),
        Content(1, "x1", 60, 0, "none"), "") :
      f \in PathForms, s \in {0, AskedPage}, p \in {0, AskedPage} }

CitedLists == UNION { [1..m -> CitationHits] : m \in 1..MaxCited }

InitCitation ==
  /\ LinkifierIdle
  /\ TextIdle
  /\ DefaultArgs
  /\ impl \in {"v1", "v2"}
  /\ user_message = Question(0, FALSE, "none", FALSE, {})
  /\ conversation_history = FALSE
  /\ filter_expr = FALSE
  /\ available_files = << >>
  /\ user_folder \in {NoneVal, FolderMine}
  /\ json_pages = [d \in Docs |-> 0]
  /\ search_results \in CitedLists
  /\ pc = LoopPc(search_results)
  /\ InitRest

NextCitation == AggregateHit

CitationSpec == InitCitation /\ [][NextCitation]_vars

(* ============================== claims ================================ *)
\* the call returned hits the ordinary way (not the error or no-result tuple)
ReturnedHits == pc = "done" /\ returned.outcome \in {"answer", "llm_error"}

\* C1: for every document of the selection, the hit list get_chat_response
\* returns holds at least one hit whose indexed name starts with that
\* document's name (stated for the calls that return their hit list).
C1_ForcedInclusion ==
  ReturnedHits =>
    \A i \in DOMAIN available_files :
      \E j \in DOMAIN returned.hits :
        NameStartsWith(returned.hits[j].name, available_files[i])

\* C2: when a selection is given, only pages of selected documents are in the
\* aggregated page set and in the context, whatever the backend returned.
C2_ScopePostFilter ==
  (pc \in {"answer", "done"} /\ available_files # << >>) =>
    /\ \A k \in DOMAIN grouped_context : k[1].doc \in Range(available_files)
    /\ \A i \in DOMAIN context_parts : context_parts[i].key[1].doc \in Range(available_files)

\* C3: when user_folder is given, every returned hit has a storage path that
\* contains user_folder.
C3_FolderIsolation ==
  (pc = "done" /\ user_folder # NoneVal) =>
    \A j \in DOMAIN returned.hits : PathContains(user_folder, returned.hits[j].path)

\* C4: the assembler emits at most 25 context entries; each entry's text is at
\* most 8000 characters plus the 3-character ellipsis, and the ellipsis is
\* there exactly when the page text was longer than 8000 characters.
C4_BudgetRespected ==
  /\ Len(context_parts) <= 25
  /\ Len(citations) = Len(context_parts)
  /\ \A i \in DOMAIN context_parts :
       LET e == context_parts[i]
       IN  /\ e.text.kept <= 8000
           /\ e.text.len = e.text.kept + (IF e.text.ellipsis THEN 3 ELSE 0)
           /\ e.text.ellipsis <=> e.full > 8000
           /\ ~e.text.ellipsis => e.text.len = e.full

\* more pages aggregated than the budget, a truncated and an untruncated entry
C4_Witness ==
  /\ Cardinality(DOMAIN grouped_context) > 25
  /\ Len(context_parts) = 25
  /\ \E i \in DOMAIN context_parts : context_parts[i].text.ellipsis
  /\ \E i \in DOMAIN context_parts : ~context_parts[i].text.ellipsis /\ context_parts[i].full > 0

\* the two-stage search of chat_manager_v2 has merged its hits
Merged == impl = "v2" /\ pc \notin {"start", "stage1", "rewrite", "stage2", "merge"}

\* the page order of chat_manager_v2 has been built from at least one page
Ordered == impl = "v2" /\ sorted_keys # << >>

\* C5 as stated: in the merged list every precision-pass hit precedes every
\* recall-pass hit, and whenever the precision pass returned a hit, the top of
\* the merged list and the top of the aggregated page order are
\* precision-pass hits.
C5_PrecisionFirst ==
  /\ Merged =>
       /\ \A i, j \in DOMAIN deduped_results :
            (i < j /\ deduped_results[j] \in Range(exact_results))
              => deduped_results[i] \in Range(exact_results)
       /\ exact_results # << >> => deduped_results[1] \in Range(exact_results)
  /\ (Ordered /\ exact_results # << >>) =>
       \E i \in DOMAIN exact_results : PageKey(exact_results[i]) = sorted_keys[1]

\* C5 as amended: the merged list is the precision-pass hits followed by the
\* recall-pass hits and starts with the first precision-pass hit; after the
\* user_folder filter the precision-pass hits that remain still come first,
\* and the top of the page order is the page of the first remaining hit,
\* unless pages with the explicitly requested number exist, which come first.
C5_PrecisionFirstAmended ==
  /\ Merged =>
       /\ \A i, j \in DOMAIN deduped_results :
            (i < j /\ deduped_results[j] \in Range(exact_results))
              => deduped_results[i] \in Range(exact_results)
       /\ exact_results # << >> => deduped_results[1] = exact_results[1]
  /\ (Merged /\ pc # "combine") =>
       \A i, j \in DOMAIN search_results :
         (i < j /\ search_results[j] \in Range(exact_results))
           => search_results[i] \in Range(exact_results)
  /\ Ordered =>
       LET asked == {k \in DOMAIN grouped_context : k[2] = user_message.explicit_page}
       IN  IF user_message.explicit_page # 0 /\ asked # {}
           THEN sorted_keys[1] \in asked
           ELSE sorted_keys[1] = PageKey(search_results[1])

\* both passes returned hits, a recall-pass hit was kept, and the pages are ordered
C5_Witness ==
  /\ Ordered
  /\ exact_results # << >>
  /\ \E i \in DOMAIN search_results : search_results[i] \notin Range(exact_results)
  /\ search_results[1] \in Range(exact_results)
  /\ Len(sorted_keys) > 1

\* C6: the recall-pass search is issued only after the precision-pass search
\* and only when that returned fewer than 3 hits; with 3 or more hits there is
\* no query expansion and no second search call.
C6_RecallOnlyWhenNeeded ==
  /\ \A j \in DOMAIN calls :
       calls[j].stage = "stage2" =>
         /\ j = 2
         /\ calls[1].stage = "stage1"
         /\ Len(exact_results) < 3
  /\ (impl = "v2" /\ pc \notin {"start", "stage1"} /\ Len(exact_results) >= 3) =>
       /\ search_query = Unbound
       /\ expanded_results = << >>
       /\ \A j \in DOMAIN calls : calls[j].stage # "stage2"
  /\ (impl = "v2" /\ pc \notin {"start", "stage1", "rewrite", "stage2"} /\ Len(exact_results) < 3) =>
       /\ Len(calls) = 2
       /\ calls[2].stage = "stage2"

\* a call in which the recall pass was skipped, and one in which it ran
C6_Witness ==
  /\ impl = "v2"
  /\ pc = "combine"
  /\ Len(exact_results) = 3
  /\ Len(calls) = 1

\* the aggregation maps as one record
CurrentAgg ==
  [grouped_context |-> grouped_context, citations_map |-> citations_map, page_ranks |-> page_ranks]

\* C7: aggregating a hit list, and aggregating it with exact duplicates of
\* some of its hits appended, give the same page keys, the same chunk list,
\* the same bestRank and the same citation per key. Stated per appended hit:
\* once the loop has aggregated the list, one more iteration on a duplicate
\* of any of its hits, at any of the next MaxDups ranks, leaves the three
\* maps as they are, so the same holds for every sequence of appended
\* duplicates.
C7_AggregatorIdempotent ==
  pc = "assemble" =>
    /\ rank = Len(search_results)
    /\ \A h \in Range(search_results) :
         \A r \in Len(search_results)..(Len(search_results) + MaxDups - 1) :
           AggStep(impl, user_folder, CurrentAgg, r, h) = CurrentAgg

\* a list whose hits share pages has been aggregated
C7_Witness ==
  /\ pc = "assemble"
  /\ Len(search_results) > Cardinality(DOMAIN grouped_context)
  /\ \E k \in DOMAIN grouped_context : Len(grouped_context[k]) > 1

SetMin(S) == CHOOSE x \in S : \A y \in S : x <= y

\* the hits among the first n that map to a key
HitsOf(key, n) == {i \in 1..n : PageKey(search_results[i]) = key}

C9_OnePerPage ==
  \A k1, k2 \in DOMAIN grouped_context :
    (k1[1].doc = k2[1].doc /\ k1[2] = k2[2]) => k1 = k2

\* a hit without '#page=N' on its path and without '(p.N)' on its name
Rogue(hit) == hit.path.page = 0 /\ hit.name.sfx = 0

\* C10: a hit with no page metadata is aggregated under (name, 1) and its
\* content is among that page's chunks.
C10_RogueKept ==
  \A i \in 1..rank :
    Rogue(search_results[i]) =>
      /\ <<unquote(search_results[i].name), 1>> \in DOMAIN grouped_context
      /\ search_results[i].content \in Range(grouped_context[<<unquote(search_results[i].name), 1>>])

\* a rogue hit has been folded in
C10_Witness ==
  \E i \in 1..rank :
    /\ Rogue(search_results[i])
    /\ PageKey(search_results[i]) \in DOMAIN grouped_context

\* the tokens of a text that are not pieces of a Markdown link
delinked(text) == SelectSeq(text, LAMBDA t : t.k \in {"txt", "span"})

\* the positions of the spans of a text
SpanAt(text) == {i \in DOMAIN text : text[i].k = "span"}

\* the positions at which a link starts in a text
LinkAt(text) == {j \in DOMAIN text : text[j].k = "["}

\* at j there is a whole link '[' span '](' url ')'
WellFormedLink(text, j) ==
  /\ j + 4 <= Len(text)
  /\ text[j + 1].k = "span"
  /\ text[j + 2].k = "]("
  /\ text[j + 3].k = "url"
  /\ text[j + 4].k = ")"

\* every piece of link syntax in the text belongs to a whole link
OnlyWholeLinks(text) ==
  /\ \A j \in LinkAt(text) : WellFormedLink(text, j)
  /\ Cardinality({j \in DOMAIN text : text[j].k \notin {"txt", "span"}}) = 4 * Cardinality(LinkAt(text))

\* C11: applying the linkifier to its own output, with the same citation
\* list, returns that output unchanged.
C11_LinkifyIdempotent ==
  lk_pc = "twice" => linked_twice = linked_once

\* the span names the document and page of the citation: its page number is
\* the citation's and its label is the citation's file name, with or without
\* the extension
Names(tok, cit) ==
  /\ int(tok.page) = cit.page
  /\ strip(lower(tok.label)) \in {lower(basename(cit.filepath)), splitext(lower(basename(cit.filepath)))}

\* C12: for a text whose k spans each name a (document, page) of the citation
\* list, for which a URL can be generated, the output has exactly k links,
\* one around each span, each to the named document with the span's page as
\* fragment, and the text outside the links is the input text.
C12_LinksExactlyCited ==
  ( /\ lk_pc # "call"
    /\ SpanAt(answer_text) # {}
    /\ \A i \in SpanAt(answer_text) :
         \E c \in DOMAIN link_citations :
           /\ Names(answer_text[i], link_citations[c])
           /\ link_citations[c].filepath \notin sas_fails )
  => /\ delinked(linked_once) = answer_text
     /\ OnlyWholeLinks(linked_once)
     /\ Cardinality(LinkAt(linked_once)) = Cardinality(SpanAt(answer_text))
     /\ \A j \in LinkAt(linked_once) :
          \E c \in DOMAIN link_citations :
            /\ Names(linked_once[j + 1], link_citations[c])
            /\ linked_once[j + 3].url = Url(quote(link_citations[c].filepath), linked_once[j + 1].page)

\* a link to this URL is justified for the span: some citation with the
\* span's page number matches its label by one of the rules, has a filepath,
\* and the URL generated for it is this one
Justified(tok, url) ==
  \E c \in DOMAIN link_citations :
    /\ link_citations[c].page = int(tok.page)
    /\ MatchRule(link_citations[c], tok.label) > 0
    /\ link_citations[c].filepath # << >>
    /\ link_citations[c].filepath \notin sas_fails
    /\ url = Url(quote(link_citations[c].filepath), tok.page)

\* C13: the linkifier always returns; its output is the input text with
\* links put around some spans, and a span is linked only if it resolves to a
\* citation for which a URL was generated: any other span is left as it was.
C13_NoFabricatedLink ==
  lk_pc # "call" =>
    /\ delinked(linked_once) = answer_text
    /\ OnlyWholeLinks(linked_once)
    /\ \A j \in LinkAt(linked_once) : Justified(linked_once[j + 1], linked_once[j + 3].url)

\* a text with a span no citation matches and a span whose URL cannot be
\* generated comes back as it was
C13_Witness ==
  /\ lk_pc = "once"
  /\ \E i \in SpanAt(answer_text) :
       \A c \in DOMAIN link_citations :
         \/ link_citations[c].page # int(answer_text[i].page)
         \/ MatchRule(link_citations[c], answer_text[i].label) = 0
  /\ \E i \in SpanAt(answer_text) :
       LET c == find_citation(link_citations, answer_text[i].label, answer_text[i].page)
       IN  c # 0 /\ link_citations[c].filepath \in sas_fails
  /\ link_citations # << >>
  /\ linked_once = answer_text

\* C17: a linked span is resolved to a citation that matches by the earliest
\* rule (exact name, name without extension, prefix, title) by which any
\* citation of that page matches it.
C17_RulePriority ==
  lk_pc # "call" =>
    \A j \in LinkAt(linked_once) :
      LET tok == linked_once[j + 1]
      IN  \E c \in DOMAIN link_citations :
            /\ link_citations[c].page = int(tok.page)
            /\ MatchRule(link_citations[c], tok.label) > 0
            /\ linked_once[j + 3].url.blob = quote(link_citations[c].filepath)
            /\ \A d \in DOMAIN link_citations :
                 (link_citations[d].page = int(tok.page) /\ MatchRule(link_citations[d], tok.label) > 0)
                   => MatchRule(link_citations[c], tok.label) <= MatchRule(link_citations[d], tok.label)

\* C14: with a conversation history and no page left for the context, the
\* call goes on to the answer step with the placeholder context and an empty
\* citation list, and what it returns carries that placeholder and no
\* citation; it is neither the 'no documents' return nor the error return.
C14_PlaceholderContext ==
  (conversation_history /\ context_parts = << >>) =>
    /\ pc \in {"answer", "done"}
    /\ citations = << >>
    /\ pc = "done" =>
         /\ returned.outcome \in {"answer", "llm_error"}
         /\ returned.context = "(No new documents found. Use conversation history.)"
         /\ returned.citations = << >>

\* a call with history and no page has returned the model's answer
C14_Witness ==
  /\ pc = "done"
  /\ conversation_history
  /\ context_parts = << >>
  /\ search_results = << >>
  /\ returned.outcome = "answer"

\* the call is at a statement that runs: a step of the function, or an
\* iteration of a loop that still has an element to work on
CanProceed ==
  /\ pc \in {"start", "stage1", "rewrite", "stage2", "merge", "main", "combine", "retry",
             "wildcard", "forced", "aggregate", "assemble", "answer"}
  /\ pc = "forced" => target_index <= Len(available_files)
  /\ pc = "aggregate" => rank < Len(search_results)

C16_FilterIsConjunction ==
  LET fs == filters(filter_expr, available_files, specific_file_filter)
      count(b) == IF b THEN 1 ELSE 0
  IN  /\ Len(fs) = count(filter_expr) + count(available_files # << >>)
                     + count(specific_file_filter # NoneVal)
      /\ \A i, j \in DOMAIN fs : fs[i].kind = fs[j].kind => i = j
      /\ final_filter.base <=> filter_expr
      /\ final_filter.scope = available_files
      /\ final_filter.named = specific_file_filter
      /\ final_filter = NoFilter <=>
           (~filter_expr /\ available_files = << >> /\ specific_file_filter = NoneVal)
      /\ \A c \in DOMAIN calls :
           calls[c].stage \in {"stage1", "stage2", "main"} => calls[c].filter = final_filter

\* a search was made with all three predicates present
C16_Witness ==
  /\ filter_expr
  /\ available_files = <<DocA, DocB>>
  /\ specific_file_filter = DocA
  /\ \E c \in DOMAIN calls :
       calls[c].filter = Filter(TRUE, <<DocA, DocB>>, DocA, NoneVal)

\* the stage-1 hits followed by the stage-2 hits
Concatenated == exact_results \o expanded_results

\* same documentName and same first 50 characters of content
SameIdentity(a, b) == a.name = b.name /\ a.content.pre = b.content.pre

\* the positions of a list that no earlier position has the identity of
FirstOccurrences(hits) ==
  {i \in DOMAIN hits : \A j \in 1..(i - 1) : ~SameIdentity(hits[j], hits[i])}

\* the hits at the positions K, in the order of the list
RECURSIVE KeepFrom(_, _, _)
KeepFrom(hits, K, i) ==
  IF i > Len(hits) THEN << >>
  ELSE (IF i \in K THEN <<hits[i]>> ELSE << >>) \o KeepFrom(hits, K, i + 1)

\* C18: the merged list is the concatenated list without the hits that have
\* the documentName and the first 50 characters of content of an earlier
\* hit: first occurrences kept, in their order, and nothing else dropped.
C18_DedupByIdentity ==
  (impl = "v2" /\ pc = "combine") =>
    deduped_results = KeepFrom(Concatenated, FirstOccurrences(Concatenated), 1)

\* the search calls of a stage
CallsOf(stage) == {c \in DOMAIN calls : calls[c].stage = stage}

\* C19: when the paraphrase call of the normalizer fails, nothing is raised
\* and the expanded query, which the recall pass searches with, is the
\* sanitized query of the precision pass.
C19_FallbackIsSanitized ==
  (impl = "v2" /\ paraphrase = "fail") =>
    /\ returned.outcome # "error"
    /\ search_query = sanitize(user_message)
    /\ \A c \in CallsOf("stage2") : calls[c].query = sanitize(user_message)

\* C20: for a question with a page reference or a structural keyword the
\* normalizer of chat_manager_v2 returns the raw question: no rule appends
\* synonym terms, the paraphrase call is not made, and the recall pass
\* searches with the raw question.
C20_SkipRewrite ==
  ( /\ impl = "v2"
    /\ pc \notin {"start", "stage1", "rewrite"}
    /\ NeedsRecall(exact_match_count)
    /\ (user_message.explicit_page # 0 \/ user_message.structural) )
  => /\ search_query = Query("raw", user_message.listy)
     /\ paraphrase = "none"
     /\ \A c \in CallsOf("stage2") : calls[c].query = Query("raw", user_message.listy)

\* the recall pass has searched with the raw text of a question that holds
\* a structural keyword and would trigger a rule
C20_Witness ==
  /\ impl = "v2"
  /\ user_message.structural
  /\ user_message.rule # "none"
  /\ CallsOf("stage2") # {}
  /\ search_query = Query("raw", TRUE)

\* the maximal runs of word characters of s from position i on, cur being the
\* run read so far
RECURSIVE WordsFrom(_, _, _)
WordsFrom(s, i, cur) ==
  LET done == IF cur = << >> THEN << >> ELSE <<cur>>
  IN IF i > Len(s) THEN done
     ELSE IF IsWordChar(s[i]) THEN WordsFrom(s, i + 1, Append(cur, s[i]))
     ELSE done \o WordsFrom(s, i + 1, << >>)

WordsOf(s) == WordsFrom(s, 1, << >>)
IsAndKeyword(w) == lower(w) = <<"a", "n", "d">>

\* no reserved character, no standalone AND, single spaces between tokens and
\* none at either end
CleanForm(t) ==
  /\ \A i \in DOMAIN t : t[i] \notin SpecialChars /\ t[i] # "TAB"
  /\ \A i \in DOMAIN t : t[i] = " " => i > 1 /\ i < Len(t) /\ t[i + 1] # " "
  /\ \A i \in DOMAIN WordsOf(t) : ~IsAndKeyword(WordsOf(t)[i])

\* C21: the sanitized query has no reserved character and no standalone AND in
\* any letter case, its tokens are separated by single spaces with none at
\* either end, its words are the words of the question without the AND
\* keywords, a question already of this form is returned unchanged, and
\* sanitizing the result again changes nothing.
C21_SanitizedForm ==
  sz_pc \in {"once", "twice"} =>
    /\ CleanForm(sanitized_once)
    /\ WordsOf(sanitized_once) = SelectSeq(WordsOf(sz_message), LAMBDA w : ~IsAndKeyword(w))
    /\ CleanForm(sz_message) => sanitized_once = sz_message
    /\ sz_pc = "twice" => sanitized_twice = sanitized_once

C21_Witness ==
  /\ sz_pc = "twice"
  /\ \E i \in DOMAIN sz_message : sz_message[i] \in SpecialChars
  /\ \E i \in DOMAIN WordsOf(sz_message) : IsAndKeyword(WordsOf(sz_message)[i])
  /\ Len(WordsOf(sanitized_once)) >= 1

\* C22: the precision pass always searches with mode all and the semantic
\* ranker off, whatever the caller passed; the recall pass searches with the
\* caller's mode and ranker; both passes carry the same combined filter.
C22_PrecisionArgsFixed ==
  /\ \A c \in CallsOf("stage1") : calls[c].mode = "all" /\ ~calls[c].ranker
  /\ \A c \in CallsOf("stage2") :
       calls[c].mode = search_mode /\ calls[c].ranker = use_semantic_ranker
  /\ \A c \in DOMAIN calls : calls[c].filter = final_filter

C22_Witness ==
  /\ CallsOf("stage1") # {}
  /\ CallsOf("stage2") # {}
  /\ search_mode = "any"
  /\ use_semantic_ranker
  /\ final_filter # NoFilter

\* the list without the hits that have the identity of an earlier hit
Deduplicated(hits) == KeepFrom(hits, FirstOccurrences(hits), 1)

\* C23: a search that fails contributes no hit and the request goes on: when
\* the recall pass fails the merged list is the deduplicated precision hits,
\* and when the precision pass fails the recall pass is still issued and its
\* deduplicated hits are the merged list.
C23_FailedSearchIsEmpty ==
  /\ returned.outcome # "error"
  /\ ("stage1" \in search_fails /\ pc # "stage1") =>
       /\ exact_results = << >>
       /\ pc \in {"merge", "combine"} => CallsOf("stage2") # {}
       /\ pc = "combine" => deduped_results = Deduplicated(expanded_results)
  /\ ("stage2" \in search_fails /\ CallsOf("stage2") # {}) =>
       /\ expanded_results = << >>
       /\ pc = "combine" => deduped_results = Deduplicated(exact_results)

C23_Witness ==
  /\ pc = "combine"
  /\ search_fails = {"stage1"}
  /\ deduped_results # << >>

C23_WitnessRecall ==
  /\ pc = "combine"
  /\ search_fails = {"stage2"}
  /\ deduped_results # << >>

\* positions of the selection order whose page number is n
PositionsOfPage(n) == {i \in DOMAIN sorted_keys : sorted_keys[i][2] = n}

\* C24: when the question names page N, every aggregated page numbered N
\* precedes every other page in the selection order of chat_manager_v2, rank
\* order is kept within the pages numbered N and within the others, and every
\* page numbered N is among the first 25 unless there are more than 25 of them.
C24_ExplicitPageFirst ==
  (impl = "v2" /\ user_message.explicit_page # 0 /\ pc \in {"answer", "done"}
     /\ returned.outcome # "error") =>
    LET N == user_message.explicit_page
        asked == PositionsOfPage(N)
    IN  /\ Range(sorted_keys) = DOMAIN grouped_context
        /\ \A i \in asked, j \in DOMAIN sorted_keys \ asked : i < j
        /\ \A i, j \in DOMAIN sorted_keys :
             (i < j /\ (i \in asked <=> j \in asked)) =>
               page_ranks[sorted_keys[i]] < page_ranks[sorted_keys[j]]
        /\ Cardinality(asked) <= 25 =>
             \A i \in asked : i <= Len(context_parts) /\ context_parts[i].key = sorted_keys[i]

\* a page 7 found after more than 25 other pages is selected
C24_Witness ==
  /\ impl = "v2"
  /\ pc = "answer"
  /\ user_message.explicit_page = AskedPage
  /\ Len(sorted_keys) > 25
  /\ \E i \in PositionsOfPage(AskedPage) :
       /\ page_ranks[sorted_keys[i]] > 25
       /\ context_parts[i].key = sorted_keys[i]

\* the document a key belongs to
DocOf(key) == key[1].doc

\* the pages of document d among the first n keys of the selection order
CountIn(d, n) == Cardinality({i \in 1..n : DocOf(sorted_keys[i]) = d})

\* C25: in the round-robin order of chat_manager the pages of each document
\* are in ascending best rank, in every prefix the page counts of two
\* documents differ by at most one unless the one with fewer has none left,
\* and every document with a page has a page among the selected entries.
C25_RoundRobinFair ==
  (impl = "v1" /\ pc \in {"answer", "done"} /\ returned.outcome # "error") =>
    LET n == Len(sorted_keys)
        docs == {DocOf(sorted_keys[i]) : i \in 1..n}
    IN  /\ \A i, j \in 1..n :
             (i < j /\ DocOf(sorted_keys[i]) = DocOf(sorted_keys[j])) =>
               page_ranks[sorted_keys[i]] < page_ranks[sorted_keys[j]]
        /\ \A p \in 0..n : \A d, e \in docs :
             CountIn(d, p) + 1 < CountIn(e, p) => CountIn(d, p) = CountIn(d, n)
        /\ \A d \in docs : \E i \in DOMAIN context_parts : DocOf(context_parts[i].key) = d

\* the name without its extension, in lower case
Stem(f) == lower(splitext(f))

\* C26: when the question names two candidates and the extension-less name of
\* one is a proper part of the other's, the predicate is never built for the
\* one with the shorter name, and it is built for the longer one when no third
\* candidate is named.
C26_LongerNameWins ==
  fm_pc = "done" =>
    \A a, b \in Range(fm_files) :
      ( /\ Mentioned(a, lower(fm_message))
        /\ Mentioned(b, lower(fm_message))
        /\ Stem(a) # Stem(b)
        /\ contains(Stem(a), Stem(b)) ) =>
          /\ fm_filter # NamePredicate(a)
          /\ (\A c \in Range(fm_files) \ {a, b} : ~Mentioned(c, lower(fm_message)))
               => fm_filter = NamePredicate(b)

\* C27: whatever the form of the hit's path, the citation's filepath has no
\* URI scheme or host prefix and no '#page=' fragment.
C27_FilepathIsLogical ==
  \A key \in DOMAIN citations_map :
    /\ ~citations_map[key].filepath.scheme
    /\ citations_map[key].filepath.frag = 0

\* C28: chat_manager_v2 reaches aggregation and assembly whether or not the
\* recall pass ran: a call whose precision pass found 3 or more hits does not
\* end in the generic error, and it has aggregated its hits.
C28_AnsweredWithoutRecall ==
  (impl = "v2" /\ pc = "done" /\ ~NeedsRecall(exact_match_count)) =>
    /\ returned.outcome # "error"
    /\ rank = Len(search_results)
    /\ grouped_context # << >>

Issues(stage) ==
  /\ Len(calls') = Len(calls) + 1
  /\ calls'[Len(calls')].stage = stage

\* every search after the first carries the base predicate and the selection
\* of the first search
ScopeKept ==
  \A c \in DOMAIN calls :
    /\ calls[c].filter.base = calls[1].filter.base
    /\ calls[c].filter.scope = calls[1].filter.scope
    /\ calls[c].stage = "retry" => calls[c].filter.named = NoneVal
    /\ calls[1].filter = final_filter

\* the retry is issued only after an empty first search that named a
\* document, the wildcard only when there is still no hit and a selection
GuardedFallback ==
  /\ Issues("retry") =>
       /\ search_results = << >>
       /\ specific_file_filter # NoneVal
       /\ calls[Len(calls)].stage = "main"
  /\ Issues("wildcard") =>
       /\ search_results = << >>
       /\ available_files # << >>

\* C30: the retry chain of chat_manager never widens the scope: the retry
\* without the named-document predicate follows only an empty first search
\* that named a document, the wildcard search only a still empty result with a
\* selection, and every retry, wildcard and forced-inclusion search carries
\* the base predicate and the selection of the first search.
C30_RetryNeverWidens ==
  /\ [](impl = "v1" => ScopeKept)
  /\ [][impl = "v1" => GuardedFallback]_vars

C30_Witness ==
  /\ impl = "v1"
  /\ filter_expr
  /\ CallsOf("retry") # {}
  /\ CallsOf("wildcard") # {}
  /\ CallsOf("forced_index") # {}
  /\ CallsOf("forced_list") # {}
====
